---- MODULE Spec2Model ----
(***************************************************************************)
(* DeepContext (src/app.py): ignore-rule matching, directory scan, file    *)
(* ingestion on a process pool, aggregation and report ordering.           *)
(*                                                                         *)
(* A file or directory name is a record [stem, ext] (the name is stem      *)
(* followed by ext, ext being the last dotted suffix as pathlib's .suffix  *)
(* computes it).  A glob of the form *.ext is the name with stem "*".      *)
(* A relative path is the sequence of its segments.                        *)
(***************************************************************************)
EXTENDS Integers, Sequences, FiniteSets, TLC

VARIABLES
    pc,               \* position of main()
    gitignore,        \* <root>/.gitignore: [state, lines]
    git_ignore_spec,  \* ProjectScanner.git_ignore_spec
    log,              \* records logged: [level, msg]
    output_path,      \* the resolved output destination
    stack,            \* os.walk: directories still to be visited
    descended,        \* directories os.walk has listed
    yielded,          \* paths the running scan() has yielded so far
    paths,            \* generate_tree: the sorted path list
    file_tree,        \* the rendered tree lines
    files_to_process, \* main: the list handed to the pool
    queue,            \* submitted calls no worker has taken yet
    running,          \* calls being executed by a worker
    futures,          \* future_to_file: what each submitted call returned
    artifacts,        \* main: results in completion order
    completed_count,
    summary,          \* ProjectSummary
    sorted_artifacts, \* ReportGenerator.generate: the order rendered
    exit_status,      \* process exit status, -1 while running
    input,            \* argument of the function under test
    result            \* its return value

vars == <<pc, gitignore, git_ignore_spec, log, output_path, stack, descended,
          yielded, paths, file_tree, files_to_process, queue, running, futures,
          artifacts, completed_count, summary, sorted_artifacts, exit_status,
          input, result>>

Nm(s, e) == [stem |-> s, ext |-> e]

(* ----------------------------------------------------------------------- *)
(* Ignore-file lines and their compilation                                 *)
(* ----------------------------------------------------------------------- *)

\* One line of ignore-file text, already split at "/":  kind is "pattern",
\* "comment" (leading #) or "blank"; neg is a leading "!", lead a leading "/",
\* trail a trailing "/".
Line(neg, lead, segs, trail) ==
    [kind |-> "pattern", neg |-> neg, lead |-> lead, segs |-> segs, trail |-> trail]

CommentLine == [kind |-> "comment", neg |-> FALSE, lead |-> FALSE, segs |-> <<>>, trail |-> FALSE]

Plain(n) == Line(FALSE, FALSE, <<n>>, FALSE)

\* LanguageConfig.IGNORE_PATTERNS.  The source keeps them in a set, so their
\* relative order in the compiled rule list is arbitrary; none is negated, so
\* the order among them cannot change a verdict.
IGNORE_PATTERNS ==
    << Nm(".git", ""), Nm(".svn", ""), Nm(".hg", ""),
       Nm("node_modules", ""), Nm("venv", ""), Nm(".venv", ""), Nm("env", ""),
       Nm("dist", ""), Nm("build", ""), Nm("target", ""),
       Nm("__pycache__", ""), Nm(".pytest_cache", ""), Nm(".mypy_cache", ""),
       Nm("vendor", ""),
       Nm("*", ".png"), Nm("*", ".jpg"), Nm("*", ".jpeg"), Nm("*", ".gif"),
       Nm("*", ".ico"), Nm("*", ".svg"), Nm("*", ".pdf"),
       Nm("*", ".zip"), Nm("*", ".tar"), Nm("*", ".gz"), Nm("*", ".7z"), Nm("*", ".rar"),
       Nm("*", ".exe"), Nm("*", ".dll"), Nm("*", ".so"), Nm("*", ".dylib"),
       Nm("*", ".class"), Nm("*", ".jar"),
       Nm("*", ".db"), Nm("*", ".sqlite"), Nm("*", ".sqlite3"), Nm("*", ".pyc"),
       Nm("package-lock", ".json"), Nm("yarn", ".lock"), Nm("pnpm-lock", ".yaml"),
       Nm("Gemfile", ".lock") >>

BuiltinNames == {IGNORE_PATTERNS[i] : i \in 1..Len(IGNORE_PATTERNS)}

BuiltinLines == [i \in 1..Len(IGNORE_PATTERNS) |-> Plain(IGNORE_PATTERNS[i])]

\* GitWildMatchPattern: a rule has include "yes" (the rule ignores what it
\* matches), "no" (negated) or "null" (comment or blank line, never matches).
\* A pattern with a leading "/" or a "/" in the middle is anchored at the
\* root; a single segment may match at any depth.  A trailing "/" makes the
\* pattern match only what lies below the named entry.
CompileLine(l) ==
    IF l.kind # "pattern"
    THEN [include |-> "null", anchored |-> FALSE, segs |-> <<>>, dirOnly |-> FALSE]
    ELSE [include  |-> IF l.neg THEN "no" ELSE "yes",
          anchored |-> l.lead \/ Len(l.segs) > 1,
          segs     |-> l.segs,
          dirOnly  |-> l.trail]

\* PathSpec.from_lines
from_lines(lines) == [i \in 1..Len(lines) |-> CompileLine(lines[i])]

\* One glob segment against one path segment: *.ext matches every name that
\* ends in .ext, anything else matches only itself.
GlobMatch(g, n) ==
    IF g.stem = "*" THEN (g.ext = "" \/ n.ext = g.ext) ELSE g = n

\* The rule's regular expression against the path string: segs are the
\* path's segments, slash is TRUE when the string ends with "/".
RuleMatches(r, segs, slash) ==
    /\ r.include # "null"
    /\ IF r.anchored
       THEN /\ Len(r.segs) <= Len(segs)
            /\ \A j \in 1..Len(r.segs) : GlobMatch(r.segs[j], segs[j])
            /\ (r.dirOnly => (Len(r.segs) < Len(segs) \/ slash))
       ELSE \E i \in 1..Len(segs) :
                /\ GlobMatch(r.segs[1], segs[i])
                /\ (r.dirOnly => (i < Len(segs) \/ slash))

\* PathSpec.match_file: the loop over all rules in order; every rule that
\* matches overwrites the verdict of the ones before it.
\* MatchedUpTo is the verdict after the first k rules.
RECURSIVE MatchedUpTo(_, _, _, _)
MatchedUpTo(spec, segs, slash, k) ==
    IF k = 0 THEN "null"
    ELSE IF RuleMatches(spec[k], segs, slash) THEN spec[k].include
    ELSE MatchedUpTo(spec, segs, slash, k - 1)

match_file(spec, segs, slash) == MatchedUpTo(spec, segs, slash, Len(spec)) = "yes"

\* ProjectScanner._load_gitignore: gi is the state of <root>/.gitignore,
\* [state |-> "absent" | "unreadable" | "ok", lines |-> its lines].
\* Returns the compiled spec and the warnings logged.
load_gitignore_partial(gi) ==
    [spec |-> from_lines(BuiltinLines \o gi.lines),
     warned |-> IF gi.state = "unreadable" THEN {"Could not read .gitignore"} ELSE {}]

load_gitignore(gi) ==
    [spec |-> from_lines(BuiltinLines \o (IF gi.state = "ok" THEN gi.lines ELSE <<>>)),
     warned |-> IF gi.state = "unreadable" THEN {"Could not read .gitignore"} ELSE {}]

\* ProjectScanner.should_ignore: p is [under |-> the path lies under root_dir,
\* segs |-> its segments relative to the root].  as_posix() never ends in
\* "/", so the spec is always asked about a string without a trailing slash.
should_ignore(spec, p) ==
    IF ~p.under THEN TRUE
    ELSE IF p.segs[Len(p.segs)] \in BuiltinNames THEN TRUE
    ELSE IF match_file(spec, p.segs, FALSE) THEN TRUE
    ELSE FALSE

(* ----------------------------------------------------------------------- *)
(* Strings and sorting                                                     *)
(* ----------------------------------------------------------------------- *)

\* Character codes of the strings names are made of.
Ord(s) ==
    CASE s = "" -> <<>>
      [] s = ".go" -> <<46, 103, 111>>
      [] s = ".log" -> <<46, 108, 111, 103>>
      [] s = ".md" -> <<46, 109, 100>>
      [] s = ".py" -> <<46, 112, 121>>
      [] s = ".txt" -> <<46, 116, 120, 116>>
      [] s = "a" -> <<97>>
      [] s = "build" -> <<98, 117, 105, 108, 100>>
      [] s = "docs" -> <<100, 111, 99, 115>>
      [] s = "empty" -> <<101, 109, 112, 116, 121>>
      [] s = "gen" -> <<103, 101, 110>>
      [] s = "guide" -> <<103, 117, 105, 100, 101>>
      [] s = "keep" -> <<107, 101, 101, 112>>
      [] s = "main" -> <<109, 97, 105, 110>>
      [] s = "out" -> <<111, 117, 116>>
      [] s = "src" -> <<115, 114, 99>>

NameStr(n) == Ord(n.stem) \o Ord(n.ext)

\* as_posix() / str() of a path below the root: segments joined by "/" (47).
\* str(p) of the absolute path is this behind a prefix common to all paths.
RECURSIVE PathStr(_)
PathStr(segs) ==
    IF Len(segs) = 1 THEN NameStr(segs[1])
    ELSE NameStr(segs[1]) \o <<47>> \o PathStr(Tail(segs))

\* Python's str comparison: code point by code point, a prefix sorts first.
RECURSIVE StrLess(_, _)
StrLess(a, b) ==
    IF b = <<>> THEN FALSE
    ELSE IF a = <<>> THEN TRUE
    ELSE IF a[1] # b[1] THEN a[1] < b[1]
    ELSE StrLess(Tail(a), Tail(b))

\* sorted(): stable, ascending; s is a sequence of <<key, item>> pairs.
RECURSIVE InsertSorted(_, _)
InsertSorted(x, s) ==
    IF s = <<>> THEN <<x>>
    ELSE IF StrLess(x[1], s[1][1]) THEN <<x>> \o s
    ELSE <<s[1]>> \o InsertSorted(x, Tail(s))

RECURSIVE sorted(_)
sorted(s) ==
    IF s = <<>> THEN <<>>
    ELSE InsertSorted(s[Len(s)], sorted(SubSeq(s, 1, Len(s) - 1)))

Items(s) == [i \in 1..Len(s) |-> s[i][2]]

IsSorted(keys) ==
    \A i \in 1..Len(keys) - 1 : ~StrLess(keys[i + 1], keys[i])

Range(s) == {s[i] : i \in 1..Len(s)}

\* The orders in which a listing may return the members of S.
Perms(S) ==
    {s \in [1..Cardinality(S) -> S] : \A i, j \in 1..Cardinality(S) : s[i] = s[j] => i = j}

(* ----------------------------------------------------------------------- *)
(* The scanned tree                                                        *)
(* ----------------------------------------------------------------------- *)

A_LOG == <<Nm("a", ".log")>>
KEEP_LOG == <<Nm("keep", ".log")>>
OUT_MD == <<Nm("out", ".md")>>
GUIDE_MD == <<Nm("docs", ""), Nm("guide", ".md")>>
GEN_PY == <<Nm("build", ""), Nm("gen", ".py")>>
MAIN_GO == <<Nm("src", ""), Nm("main", ".go")>>
EMPTY_TXT == <<Nm("src", ""), Nm("empty", ".txt")>>

\* The files below the root, as paths relative to it.  a.log is a symbolic
\* link to out.md; docs/guide.md holds bytes that are not UTF-8; src/main.go
\* has 10 lines and no trailing newline; src/empty.txt has 0 bytes.
Files == {A_LOG, KEEP_LOG, OUT_MD, GUIDE_MD, GEN_PY, MAIN_GO, EMPTY_TXT}

Prefix(p, k) == SubSeq(p, 1, k)

Dirs == UNION {{Prefix(f, k) : k \in 0..Len(f) - 1} : f \in Files}

FilesIn(d) == {f[Len(f)] : f \in {g \in Files : Len(g) = Len(d) + 1 /\ Prefix(g, Len(d)) = d}}

DirsIn(d) == {e[Len(e)] : e \in {g \in Dirs : Len(g) = Len(d) + 1 /\ Prefix(g, Len(d)) = d}}

Under(segs) == [under |-> TRUE, segs |-> segs]

\* pathlib.Path.resolve() of a path of the tree.
Resolve(f) == IF f = A_LOG THEN Under(OUT_MD) ELSE Under(f)

\* What a file holds: n lines of w characters each, the last one ending in a
\* newline iff nl; fault is what reading it runs into.
Shape(n, w, nl, fault) == [n |-> n, w |-> w, nl |-> nl, fault |-> fault]

ShapeOf(f) ==
    CASE f = A_LOG -> Shape(5, 20, TRUE, "none")
      [] f = OUT_MD -> Shape(5, 20, TRUE, "none")
      [] f = KEEP_LOG -> Shape(3, 10, TRUE, "none")
      [] f = GUIDE_MD -> Shape(4, 7, FALSE, "decode")
      [] f = GEN_PY -> Shape(2, 5, TRUE, "none")
      [] f = MAIN_GO -> Shape(10, 11, FALSE, "none")
      [] f = EMPTY_TXT -> Shape(0, 0, FALSE, "none")

\* Files that may vanish between the scan and their ingestion.
Flaky == {KEEP_LOG}

(* ----------------------------------------------------------------------- *)
(* FileProcessor.process                                                   *)
(* ----------------------------------------------------------------------- *)

MAX_FILE_SIZE_BYTES == 1000000
CHARS_PER_TOKEN == 4
TAIL_LINES == 1000

\* Length of the warning comment without the digits of the size, and the
\* newlines it ends with.
PREAMBLE_LEN == 86
PREAMBLE_NEWLINES == 2

None == [none |-> TRUE]

\* A future whose call has not returned.
Pending == [none |-> TRUE, pending |-> TRUE]

\* st_size: one byte per character and per newline.
st_size(sh) == IF sh.n = 0 THEN 0 ELSE sh.n * (sh.w + 1) - (IF sh.nl THEN 0 ELSE 1)

RECURSIVE Digits(_)
Digits(k) == IF k < 10 THEN 1 ELSE 1 + Digits(k \div 10)

Min(a, b) == IF a < b THEN a ELSE b

\* Text content: pre is the size named by the warning preamble (0: no
\* preamble), followed by n lines of w characters, the last with a newline
\* iff nl.
ContentLen(c) ==
    (IF c.pre > 0 THEN PREAMBLE_LEN + Digits(c.pre) ELSE 0)
    + (IF c.n = 0 THEN 0 ELSE c.n * (c.w + 1) - (IF c.nl THEN 0 ELSE 1))

ContentNewlines(c) ==
    (IF c.pre > 0 THEN PREAMBLE_NEWLINES ELSE 0)
    + (IF c.n = 0 THEN 0 ELSE c.n - (IF c.nl THEN 0 ELSE 1))

Artifact(f, sh, content, trunc) ==
    [none |-> FALSE,
     relative_path |-> f,
     size |-> st_size(sh),
     lines |-> ContentNewlines(content) + 1,
     content |-> content,
     token_estimate |-> ContentLen(content) \div CHARS_PER_TOKEN,
     is_truncated |-> trunc]

process_ge(f, sh) ==
    IF sh.fault = "stat" THEN None
    ELSE IF st_size(sh) = 0 THEN None
    ELSE IF st_size(sh) >= MAX_FILE_SIZE_BYTES
    THEN IF sh.fault = "read" THEN None
         ELSE Artifact(f, sh,
                       [pre |-> st_size(sh), n |-> Min(sh.n, TAIL_LINES), w |-> sh.w, nl |-> sh.nl],
                       TRUE)
    ELSE IF sh.fault \in {"read", "decode"} THEN None
         ELSE Artifact(f, sh, [pre |-> 0, n |-> sh.n, w |-> sh.w, nl |-> sh.nl], FALSE)

process(f, sh) ==
    IF sh.fault = "stat" THEN None
    ELSE IF st_size(sh) = 0 THEN None
    ELSE IF st_size(sh) > MAX_FILE_SIZE_BYTES
    THEN IF sh.fault = "read" THEN None
         ELSE Artifact(f, sh,
                       [pre |-> st_size(sh), n |-> Min(sh.n, TAIL_LINES), w |-> sh.w, nl |-> sh.nl],
                       TRUE)
    ELSE IF sh.fault \in {"read", "decode"} THEN None
         ELSE Artifact(f, sh, [pre |-> 0, n |-> sh.n, w |-> sh.w, nl |-> sh.nl], FALSE)

(* ----------------------------------------------------------------------- *)
(* ProjectScanner.scan and generate_tree                                   *)
(* ----------------------------------------------------------------------- *)

\* dirs[:] = [d for d in dirs if not self.should_ignore(root / d)]
PruneDirs(spec, d, order) ==
    LET Keep(n) == ~should_ignore(spec, Under(d \o <<n>>))
    IN  SelectSeq(order, Keep)

\* The files of one directory the generator yields, in listing order.
YieldFiles(spec, d, order) ==
    LET Keep(n) == ~should_ignore(spec, Under(d \o <<n>>))
    IN  SelectSeq(order, Keep)

Under_d(d, names) == [i \in 1..Len(names) |-> d \o <<names[i]>>]

TreeLine(kind, indent, name) == [kind |-> kind, indent |-> indent, name |-> name]

\* The loop of generate_tree over the sorted relative paths.
RECURSIVE TreeLines(_, _)
TreeLines(ps, added_dirs) ==
    IF ps = <<>> THEN <<>>
    ELSE LET p == ps[1]
             depth == Len(p) - 1
             New(i) == Prefix(p, i) \notin added_dirs
             fresh == SelectSeq([i \in 1..depth |-> i], New)
         IN  [k \in 1..Len(fresh) |-> TreeLine("dir", fresh[k] - 1, p[fresh[k]])]
             \o <<TreeLine("file", depth, p[Len(p)])>>
             \o TreeLines(Tail(ps), added_dirs \cup {Prefix(p, i) : i \in 1..depth})

KeyedPaths(ps) == [i \in 1..Len(ps) |-> <<PathStr(ps[i]), ps[i]>>]

\* paths = sorted(list(self.scan()), key=lambda p: str(p))
tree_paths_unsorted(scanned) == scanned

tree_paths(scanned) == Items(sorted(KeyedPaths(scanned)))

generate_tree(ps) ==
    IF ps = <<>> THEN <<TreeLine("none", 0, Nm("No files found.", ""))>>
    ELSE <<TreeLine("root", 0, Nm("root", ""))>> \o TreeLines(ps, {})

(* ----------------------------------------------------------------------- *)
(* main                                                                    *)
(* ----------------------------------------------------------------------- *)

\* Workers of the pool (os.cpu_count() of the machine).
MAX_WORKERS == 2

\* files_to_process = [f for f in files_to_process if f.resolve() != output_path]
filter_output_unresolved(fs, out) ==
    LET Keep(f) == Under(f) # out
    IN  SelectSeq(fs, Keep)

filter_output(fs, out) ==
    LET Keep(f) == Resolve(f) # out
    IN  SelectSeq(fs, Keep)

RECURSIVE SumOf(_, _)
SumOf(s, field) ==
    IF s = <<>> THEN 0 ELSE s[1][field] + SumOf(Tail(s), field)

\* ProjectSummary(...)
make_summary_submitted(arts, tree) ==
    [total_files |-> Len(files_to_process),
     total_lines |-> SumOf(arts, "lines"),
     total_tokens |-> SumOf(arts, "token_estimate"),
     file_tree |-> tree,
     artifacts |-> arts]

make_summary(arts, tree) ==
    [total_files |-> Len(arts),
     total_lines |-> SumOf(arts, "lines"),
     total_tokens |-> SumOf(arts, "token_estimate"),
     file_tree |-> tree,
     artifacts |-> arts]

KeyedArtifacts(arts) == [i \in 1..Len(arts) |-> <<PathStr(arts[i].relative_path), arts[i]>>]

\* sorted(summary.artifacts, key=lambda x: x.relative_path)
render_order_unsorted(arts) == arts

render_order(arts) == Items(sorted(KeyedArtifacts(arts)))

\* if result: artifacts.append(result)
collect(arts, r) == IF r.none THEN arts ELSE Append(arts, r)

NoSummary == [total_files |-> 0, total_lines |-> 0, total_tokens |-> 0,
              file_tree |-> <<>>, artifacts |-> <<>>]

\* The states of <root>/.gitignore the run may find.
GitignoreFiles ==
    { [state |-> "absent", lines |-> <<>>],
      [state |-> "unreadable", lines |-> <<Line(FALSE, FALSE, <<Nm("docs", "")>>, TRUE)>>],
      [state |-> "ok", lines |-> <<>>],
      [state |-> "ok", lines |-> <<Line(FALSE, FALSE, <<Nm("docs", "")>>, TRUE)>>],
      [state |-> "ok", lines |-> <<Plain(Nm("*", ".log")), Line(TRUE, FALSE, <<Nm("keep", ".log")>>, FALSE)>>],
      [state |-> "ok", lines |-> <<Line(FALSE, FALSE, <<Nm("docs", "")>>, TRUE),
                                   Line(TRUE, FALSE, <<Nm("guide", ".md")>>, FALSE)>>],
      [state |-> "ok", lines |-> <<CommentLine, Line(TRUE, FALSE, <<Nm("build", "")>>, FALSE)>>] }

\* The output destination: inside the scanned tree, or elsewhere.
OutputPaths == {Under(OUT_MD), [under |-> FALSE, segs |-> <<Nm("ctx", ".md")>>]}

\* Nothing has run yet.
NotStarted ==
    /\ git_ignore_spec = <<>>
    /\ log = {}
    /\ stack = <<>>
    /\ descended = {}
    /\ yielded = <<>>
    /\ paths = <<>>
    /\ file_tree = <<>>
    /\ files_to_process = <<>>
    /\ queue = <<>>
    /\ running = {}
    /\ futures = <<>>
    /\ artifacts = <<>>
    /\ completed_count = 0
    /\ summary = NoSummary
    /\ sorted_artifacts = <<>>
    /\ exit_status = -1
    /\ result = <<>>

Init ==
    /\ pc = "start"
    /\ gitignore \in GitignoreFiles
    /\ output_path \in OutputPaths
    /\ input = <<>>
    /\ NotStarted

Logged(level, msg) == [level |-> level, msg |-> msg]

\* if not root_path.exists(): logger.error(...); sys.exit(1)
RootMissing ==
    /\ pc = "start"
    /\ log' = log \cup {Logged("error", "Path does not exist")}
    /\ exit_status' = 1
    /\ pc' = "done"
    /\ UNCHANGED <<gitignore, git_ignore_spec, output_path, stack, descended, yielded,
                   paths, file_tree, files_to_process, queue, running, artifacts,
                   completed_count, summary, sorted_artifacts, input, result, futures>>

\* scanner = ProjectScanner(root_path), up to the first os.walk step of
\* generate_tree.
NewScanner ==
    /\ pc = "start"
    /\ LET r == load_gitignore(gitignore)
       IN  /\ git_ignore_spec' = r.spec
           /\ log' = log \cup {Logged("warning", m) : m \in r.warned}
    /\ stack' = <<(<<>>)>>
    /\ yielded' = <<>>
    /\ pc' = "tree_scan"
    /\ UNCHANGED <<gitignore, output_path, descended, paths, file_tree,
                   files_to_process, queue, running, artifacts, completed_count,
                   summary, sorted_artifacts, exit_status, input, result, futures>>

\* One iteration of the os.walk loop of scan(): the directory at the head of
\* the stack is listed (in an order the filesystem chooses), its ignored
\* subdirectories are dropped, its files that are not ignored are yielded.
ScanStep ==
    /\ pc \in {"tree_scan", "collect"}
    /\ stack # <<>>
    /\ LET d == Head(stack)
       IN  \E dorder \in Perms(DirsIn(d)), forder \in Perms(FilesIn(d)) :
              /\ stack' = Under_d(d, PruneDirs(git_ignore_spec, d, dorder)) \o Tail(stack)
              /\ yielded' = yielded \o Under_d(d, YieldFiles(git_ignore_spec, d, forder))
              /\ descended' = descended \cup {d}
    /\ UNCHANGED <<pc, gitignore, git_ignore_spec, log, output_path, paths, file_tree,
                   files_to_process, queue, running, artifacts, completed_count,
                   summary, sorted_artifacts, exit_status, input, result, futures>>

\* file_tree = scanner.generate_tree(), once its scan is exhausted.
GenerateTree ==
    /\ pc = "tree_scan"
    /\ stack = <<>>
    /\ paths' = tree_paths(yielded)
    /\ file_tree' = generate_tree(paths')
    /\ stack' = <<(<<>>)>>
    /\ yielded' = <<>>
    /\ pc' = "collect"
    /\ UNCHANGED <<gitignore, git_ignore_spec, log, output_path, descended,
                   files_to_process, queue, running, artifacts, completed_count,
                   summary, sorted_artifacts, exit_status, input, result, futures>>

\* files_to_process = list(scanner.scan()), the output file filtered out,
\* and every remaining path submitted to the executor.
Submit ==
    /\ pc = "collect"
    /\ stack = <<>>
    /\ files_to_process' = filter_output(yielded, output_path)
    /\ queue' = files_to_process'
    /\ futures' = [f \in Range(files_to_process') |-> Pending]
    /\ pc' = IF files_to_process' = <<>> THEN "aggregate" ELSE "pool"
    /\ UNCHANGED <<gitignore, git_ignore_spec, log, output_path, stack, descended,
                   yielded, paths, file_tree, running, artifacts, completed_count,
                   summary, sorted_artifacts, exit_status, input, result>>

\* A free worker takes the oldest submitted call.
TakeCall ==
    /\ pc = "pool"
    /\ queue # <<>>
    /\ Cardinality(running) < MAX_WORKERS
    /\ running' = running \cup {Head(queue)}
    /\ queue' = Tail(queue)
    /\ UNCHANGED <<pc, gitignore, git_ignore_spec, log, output_path, stack, descended,
                   yielded, paths, file_tree, files_to_process, artifacts,
                   completed_count, summary, sorted_artifacts, exit_status, input, result, futures>>

\* A call completes and as_completed hands its result to main.
Complete(f) ==
    /\ pc = "pool"
    /\ f \in running
    /\ \E fault \in (IF f \in Flaky THEN {"none", "stat"} ELSE {ShapeOf(f).fault}) :
          LET r == process(f, [ShapeOf(f) EXCEPT !.fault = fault])
          IN  /\ futures' = [futures EXCEPT ![f] = r]
              /\ artifacts' = collect(artifacts, r)
    /\ running' = running \ {f}
    /\ completed_count' = completed_count + 1
    /\ pc' = IF completed_count' = Len(files_to_process) THEN "aggregate" ELSE "pool"
    /\ UNCHANGED <<gitignore, git_ignore_spec, log, output_path, stack, descended,
                   yielded, paths, file_tree, files_to_process, queue,
                   summary, sorted_artifacts, exit_status, input, result>>

\* summary = ProjectSummary(...)
Aggregate ==
    /\ pc = "aggregate"
    /\ summary' = make_summary(artifacts, file_tree)
    /\ pc' = "generate"
    /\ UNCHANGED <<gitignore, git_ignore_spec, log, output_path, stack, descended,
                   yielded, paths, file_tree, files_to_process, queue, running,
                   artifacts, completed_count, sorted_artifacts, exit_status, input, result, futures>>

\* report_content = ReportGenerator.generate(summary)
Generate ==
    /\ pc = "generate"
    /\ sorted_artifacts' = render_order(summary.artifacts)
    /\ pc' = "write"
    /\ UNCHANGED <<gitignore, git_ignore_spec, log, output_path, stack, descended,
                   yielded, paths, file_tree, files_to_process, queue, running,
                   artifacts, completed_count, summary, exit_status, input, result, futures>>

\* The report is written; main returns.
WriteOk ==
    /\ pc = "write"
    /\ log' = log \cup {Logged("info", "Success")}
    /\ exit_status' = 0
    /\ pc' = "done"
    /\ UNCHANGED <<gitignore, git_ignore_spec, output_path, stack, descended, yielded,
                   paths, file_tree, files_to_process, queue, running, artifacts,
                   completed_count, summary, sorted_artifacts, input, result, futures>>

\* open() or write() raises IOError: it is caught and logged; main returns.
WriteFails ==
    /\ pc = "write"
    /\ log' = log \cup {Logged("error", "Failed to write output")}
    /\ exit_status' = 0
    /\ pc' = "done"
    /\ UNCHANGED <<gitignore, git_ignore_spec, output_path, stack, descended, yielded,
                   paths, file_tree, files_to_process, queue, running, artifacts,
                   completed_count, summary, sorted_artifacts, input, result, futures>>

Next ==
    \/ RootMissing
    \/ NewScanner
    \/ ScanStep
    \/ GenerateTree
    \/ Submit
    \/ TakeCall
    \/ \E f \in Files : Complete(f)
    \/ Aggregate
    \/ Generate
    \/ WriteOk
    \/ WriteFails

Spec == Init /\ [][Next]_vars

(* ----------------------------------------------------------------------- *)
(* The matcher on its own: a rule set is compiled, one path is asked about *)
(* ----------------------------------------------------------------------- *)

MaxLines == 2
MaxDepth == 2

LineUniverse ==
    { Plain(Nm("*", ".log")),
      Line(TRUE, FALSE, <<Nm("keep", ".log")>>, FALSE),
      Line(FALSE, FALSE, <<Nm("docs", "")>>, TRUE),
      Line(TRUE, FALSE, <<Nm("build", "")>>, FALSE),
      Line(TRUE, FALSE, <<Nm("yarn", ".lock")>>, FALSE),
      Line(TRUE, FALSE, <<Nm("*", ".png")>>, FALSE),
      Line(FALSE, TRUE, <<Nm("src", ""), Nm("main", ".go")>>, FALSE),
      CommentLine }

NameUniverse ==
    { Nm("build", ""), Nm("docs", ""), Nm("src", ""), Nm("a", ".log"), Nm("keep", ".log"),
      Nm("yarn", ".lock"), Nm("logo", ".png"), Nm("main", ".go") }

SeqsUpTo(S, k) == UNION {[1..n -> S] : n \in 0..k}

QueryPaths ==
    {Under(s) : s \in SeqsUpTo(NameUniverse, MaxDepth) \ {<<>>}}
    \cup {[under |-> FALSE, segs |-> <<Nm("a", ".log")>>]}

InitMatch ==
    /\ pc = "compile"
    /\ gitignore \in {[state |-> "ok", lines |-> ls] : ls \in SeqsUpTo(LineUniverse, MaxLines)}
    /\ output_path = Under(OUT_MD)
    /\ input = <<>>
    /\ NotStarted

\* ProjectScanner.__init__
Compile ==
    /\ pc = "compile"
    /\ git_ignore_spec' = load_gitignore(gitignore).spec
    /\ pc' = "compiled"
    /\ UNCHANGED <<gitignore, log, output_path, stack, descended, yielded, paths,
                   file_tree, files_to_process, queue, running, futures, artifacts,
                   completed_count, summary, sorted_artifacts, exit_status, input, result>>

\* scanner.should_ignore(p)
Query(p) ==
    /\ pc = "compiled"
    /\ input' = p
    /\ result' = should_ignore(git_ignore_spec, p)
    /\ pc' = "queried"
    /\ UNCHANGED <<gitignore, git_ignore_spec, log, output_path, stack, descended,
                   yielded, paths, file_tree, files_to_process, queue, running, futures,
                   artifacts, completed_count, summary, sorted_artifacts, exit_status>>

NextMatch ==
    \/ Compile
    \/ \E p \in QueryPaths : Query(p)

SpecMatch == InitMatch /\ [][NextMatch]_vars

(* ----------------------------------------------------------------------- *)
(* FileProcessor.process on its own                                        *)
(* ----------------------------------------------------------------------- *)

FileShapes ==
    { Shape(n, w, nl, fault) :
        n \in {0, 1, 2, 999, 1000, 1001, 2000},
        w \in {0, 9, 499, 749, 999, 1000},
        nl \in BOOLEAN,
        fault \in {"none", "stat", "read", "decode"} }

InitProcess ==
    /\ pc = "call"
    /\ gitignore = [state |-> "absent", lines |-> <<>>]
    /\ output_path = Under(OUT_MD)
    /\ input \in FileShapes
    /\ NotStarted

\* FileProcessor.process(path, root)
Process ==
    /\ pc = "call"
    /\ result' = process(MAIN_GO, input)
    /\ pc' = "returned"
    /\ UNCHANGED <<gitignore, git_ignore_spec, log, output_path, stack, descended,
                   yielded, paths, file_tree, files_to_process, queue, running, futures,
                   artifacts, completed_count, summary, sorted_artifacts, exit_status, input>>

NextProcess == Process

SpecProcess == InitProcess /\ [][NextProcess]_vars

(* ----------------------------------------------------------------------- *)
(* Properties                                                              *)
(* ----------------------------------------------------------------------- *)

\* Index of the last rule that matches, 0 when none does.
LastMatch(spec, segs, slash) ==
    LET S == {i \in 1..Len(spec) : RuleMatches(spec[i], segs, slash)}
    IN  IF S = {} THEN 0 ELSE CHOOSE i \in S : \A j \in S : j <= i

Seen(level, msg) == Logged(level, msg) \in log

\* The scanner has been constructed.
Loaded == pc \notin {"start", "compile", "call", "returned"} /\ exit_status # 1

\* main has built the summary.
Aggregated == pc \in {"generate", "write", "done"} /\ exit_status # 1

Keys(ps) == [i \in 1..Len(ps) |-> PathStr(ps[i])]

ArtifactKeys(arts) == [i \in 1..Len(arts) |-> PathStr(arts[i].relative_path)]

ArtifactPaths(arts) == {arts[i].relative_path : i \in 1..Len(arts)}

\* C1: for every compiled rule set and every path under the root, the
\* verdict of should_ignore (with its exact-base-name fast path) equals the
\* verdict of evaluating the full ordered rule set alone.
C1_FastPathAgreesWithRules ==
    (pc = "queried" /\ input.under) =>
        result = match_file(git_ignore_spec, input.segs, FALSE)

\* C3: the verdict for a path is that of the last rule of the compiled set
\* that matches it: excluded when that rule is not negated, included when it
\* is negated, included when no rule matches.
C3_LastMatchingRuleDecides ==
    (pc = "queried" /\ input.under) =>
        LET k == LastMatch(git_ignore_spec, input.segs, FALSE)
        IN  /\ (k = 0 => result = FALSE)
            /\ (k # 0 /\ git_ignore_spec[k].include = "no" => result = FALSE)
            /\ (k # 0 /\ git_ignore_spec[k].include = "yes" => result = TRUE)

\* A directory the matcher excludes when it is asked about it as a
\* directory (the path string ending in "/").
IgnoredAsDirectory(d) ==
    \/ d[Len(d)] \in BuiltinNames
    \/ match_file(git_ignore_spec, d, TRUE)

NoIgnoredAncestor(f) ==
    \A k \in 1..Len(f) - 1 : ~IgnoredAsDirectory(Prefix(f, k))

\* C2: a directory matched as ignored, tested as a directory, is never
\* descended into, and no yielded path, sorted path or artifact lies below an
\* ignored directory.
C2_IgnoredDirectoriesPruned ==
    Loaded =>
        /\ \A d \in descended \ {<<>>} : ~IgnoredAsDirectory(d) /\ NoIgnoredAncestor(d)
        /\ \A f \in Range(yielded) \cup Range(paths) \cup ArtifactPaths(artifacts) :
              NoIgnoredAncestor(f)

C5_OutputNeverIngested ==
    \A f \in Range(files_to_process) \cup Range(queue) \cup running
             \cup DOMAIN futures \cup ArtifactPaths(artifacts)
             \cup ArtifactPaths(summary.artifacts) :
        Resolve(f) # output_path

C5_OutputWasScanned ==
    /\ pc = "done"
    /\ output_path = Under(OUT_MD)
    /\ OUT_MD \in Range(yielded)
    /\ A_LOG \in Range(yielded)
    /\ Len(summary.artifacts) >= 2

\* C6: the run ends with a non-zero status exactly when the root path does
\* not exist or the output destination cannot be written.
C6_NonZeroExactlyOnFatal ==
    pc = "done" =>
        (exit_status # 0 <=>
            (Seen("error", "Path does not exist") \/ Seen("error", "Failed to write output")))

\* What the completed calls returned, nothing-results left out.
Produced == {futures[f] : f \in {g \in DOMAIN futures : ~futures[g].none}}

RECURSIVE SetSum(_, _)
SetSum(S, field) ==
    IF S = {} THEN 0
    ELSE LET x == CHOOSE y \in S : TRUE
         IN  x[field] + SetSum(S \ {x}, field)

\* C7: calls that return nothing do not stop the run: every submitted path is
\* processed, the summary holds exactly the artifacts the calls returned, and
\* the totals are the count and the sums over those artifacts; the empty file
\* has no artifact.
C7_SkipsAbsorbed ==
    Aggregated =>
        /\ DOMAIN futures = Range(files_to_process)
        /\ \A f \in DOMAIN futures : futures[f] # Pending
        /\ completed_count = Len(files_to_process)
        /\ Range(summary.artifacts) = Produced
        /\ Len(summary.artifacts) = Cardinality(Produced)
        /\ summary.total_files = Cardinality(Produced)
        /\ summary.total_lines = SetSum(Produced, "lines")
        /\ summary.total_tokens = SetSum(Produced, "token_estimate")
        /\ EMPTY_TXT \notin ArtifactPaths(summary.artifacts)

C7_SomeSkippedSomeKept ==
    /\ pc = "done"
    /\ {EMPTY_TXT, GUIDE_MD, KEEP_LOG, MAIN_GO} \subseteq DOMAIN futures
    /\ futures[EMPTY_TXT] = None
    /\ futures[GUIDE_MD] = None
    /\ futures[KEEP_LOG] = None
    /\ MAIN_GO \in ArtifactPaths(summary.artifacts)
    /\ summary.total_files = 2

GitignoreWarning == Seen("warning", "Could not read .gitignore")

C9_TruncationThreshold ==
    (pc = "returned" /\ ~result.none) =>
        LET size == st_size(input)
            c == result.content
            cut == IF input.nl THEN 0 ELSE 1
        IN  /\ result.is_truncated <=> size > 1000000
            /\ ~result.is_truncated => (c.pre = 0 /\ c.n = input.n)
            /\ result.is_truncated =>
                  /\ c.pre = size
                  /\ c.n <= 1000
                  /\ c.n = Min(input.n, 1000)
                  /\ c.w = input.w /\ c.nl = input.nl
                  /\ result.lines = 2 + (c.n - cut) + 1
                  /\ result.token_estimate =
                        (86 + Digits(size) + c.n * (c.w + 1) - cut) \div 4

C9_TailOfLargeFile ==
    /\ pc = "returned"
    /\ ~result.none
    /\ result.is_truncated
    /\ input.n = 2000
    /\ st_size(input) = 1500000
    /\ result.content.n = 1000
    /\ result.lines = 1003

\* Files the scan includes: not ignored, below directories that are not
\* ignored.
Included(f) ==
    /\ ~should_ignore(git_ignore_spec, Under(f))
    /\ \A k \in 1..Len(f) - 1 : ~should_ignore(git_ignore_spec, Under(Prefix(f, k)))

TreeBuilt == Loaded /\ pc # "tree_scan"

====
